---- MODULE Spec2Model ----
(***************************************************************************)
(* SQLiteBinding (src/sqlite_binding.cpp): a connection object owning one  *)
(* native sqlite3 handle, and the statement protocol                       *)
(* prepare -> bind -> step -> fetch -> finalize run by its query methods.  *)
(*                                                                         *)
(* The sqlite3 engine is an external library: its answers (result codes,   *)
(* placeholder count, column names, column types) are inputs chosen with   *)
(* \E from small sets; every call the binding makes to it is appended to   *)
(* `calls`, every print_error / ERR_FAIL diagnostic to `diag`.             *)
(***************************************************************************)
EXTENDS Integers, Sequences, FiniteSets, TLC

\* ---------------------------------------------------------------- bounds
MaxArgs == 2
MaxRows == 2
MaxStmts == 2
MaxHandles == 2
MaxPathLen == 2
MaxTextLen == 2
MaxBlobLen == 2

\* ------------------------------------------------------------- constants
\* sqlite3* db_ctx = nullptr; sqlite3_stmt* stmt = nullptr
nullptr == 0

\* Variant::Type tags an argument can carry: the five of bind_args' switch,
\* and BOOL standing for every tag that falls to its default branch.
VariantTypes == {"PACKED_BYTE_ARRAY", "FLOAT", "INT", "NIL", "STRING", "BOOL"}

\* Column type codes sqlite3_column_type can be asked to report: the five of
\* fetch_row's switch, and OTHER standing for any code that falls to default.
ColumnTypes == {"SQLITE_INTEGER", "SQLITE_FLOAT", "SQLITE_TEXT", "SQLITE_BLOB",
                "SQLITE_NULL", "OTHER"}

\* sqlite3_step results: the two the fetch loop names, and SQLITE_ERROR
\* standing for every other result code.
StepResults == {"SQLITE_ROW", "SQLITE_DONE", "SQLITE_ERROR"}

\* Query texts handed to the methods, with what the engine derives from the
\* text: whether it compiles, sqlite3_bind_parameter_count, and the column
\* names (sqlite3_column_count / sqlite3_column_name).  The texts are those
\* of the test case plus a one-column select and an invalid text.
Queries ==
    { [text |-> "CREATE TABLE fruits",             valid |-> TRUE,  params |-> 0, cols |-> <<>>],
      [text |-> "INSERT INTO fruits VALUES (?, ?)", valid |-> TRUE,  params |-> 2, cols |-> <<>>],
      [text |-> "SELECT * FROM fruits",            valid |-> TRUE,  params |-> 0, cols |-> <<"name", "price">>],
      [text |-> "SELECT ? AS v",                   valid |-> TRUE,  params |-> 1, cols |-> <<"v">>],
      [text |-> "not sql",                         valid |-> FALSE, params |-> 0, cols |-> <<>>] }

NoQuery == [text |-> "", valid |-> FALSE, params |-> 0, cols |-> <<>>]

\* Argument arrays: every sequence of tagged values of length <= MaxArgs.
SeqsUpTo(S, n) == UNION { [1..k -> S] : k \in 0..n }
ArgLists == SeqsUpTo(VariantTypes, MaxArgs)

\* Rows the engine can be positioned on: the reported type of each column.
\* One-column statements report every type; two-column statements report
\* the pairs below (every type in each position, the unsupported one first
\* and last).
RowTypes(n) ==
    IF n = 1 THEN { <<t>> : t \in ColumnTypes }
    ELSE IF n = 2 THEN
        { <<"SQLITE_TEXT", "SQLITE_INTEGER">>, <<"SQLITE_BLOB", "SQLITE_FLOAT">>,
          <<"SQLITE_INTEGER", "SQLITE_NULL">>, <<"SQLITE_NULL", "SQLITE_TEXT">>,
          <<"SQLITE_FLOAT", "SQLITE_BLOB">>,
          <<"OTHER", "SQLITE_INTEGER">>, <<"SQLITE_TEXT", "OTHER">> }
    ELSE {}

\* Paths: strings over a blank and a letter.
Paths == SeqsUpTo({" ", "d"}, MaxPathLen)

VARIABLES
    alive,      \* the SQLiteBinding object exists (not yet destroyed)
    db_ctx,     \* sqlite3* db_ctx: nullptr or a native handle
    handles,    \* engine side: native handles allocated and not yet closed
    stmts,      \* engine side: statements prepared and not yet finalized
    stmt_db,    \* engine side: the native handle each live statement was
                \* prepared on
    conn,       \* what the caller was told: "Open" after open returned true,
                \* "Closed" initially and after close returned true
    pc,         \* position inside the running method; "done" when it has
                \* returned, "idle" once the caller has taken the result
    op,         \* the method running or just returned
    cur_query,  \* the query of the running / last statement method
    args,       \* const Array& arguments of the running / last method
    stmt,       \* sqlite3_stmt* stmt local of the running method
    i,          \* bind_args' loop index (0-based, as in the source)
    array,      \* Array array local of query_fetch_rows_with_args
    retval,     \* bool returned by the last open/close/query/query_with_args
    rows,       \* Array returned by the last query_fetch_rows(_with_args)
    calls,      \* engine calls made by the running / last method, in order
    diag,       \* diagnostics printed by the running / last method, in order
    open_path,  \* const String& path of the running / just returned open
    \* One pass of arguments through bind_args, the engine and fetch_row
    \* (specification SpecRoundTrip):
    columns,    \* the column names of the round-trip query
    values,     \* the Variants handed over as arguments, with their values
    params,     \* engine side: the parameters the sqlite3_bind_* calls set
    cells,      \* engine side: the columns of the row stepped to
    record,     \* the Dictionary fetch_row built from that row
    rt_pc       \* how far the pass has come

binding == <<alive, db_ctx, handles, stmts, stmt_db, conn, pc, op, cur_query, args,
             stmt, i, array, retval, rows, calls, diag, open_path>>
codec == <<columns, values, params, cells, record, rt_pc>>
vars == <<binding, codec>>

\* One engine call: the routine, the handle it is made on (a native database
\* handle for open/close/prepare, a statement for the rest), the placeholder
\* or column position when there is one, and the engine's answer.
Call(name, h, pos, res) == [call |-> name, h |-> h, pos |-> pos, res |-> res]

StatementOps == {"query", "query_with_args", "query_fetch_rows",
                 "query_fetch_rows_with_args"}
ExecOps  == {"query", "query_with_args"}
FetchOps == {"query_fetch_rows", "query_fetch_rows_with_args"}

Fresh(used, max) == CHOOSE h \in 1..max : h \notin used /\ \A g \in 1..max : g \notin used => h <= g

InitBinding ==
    /\ alive = TRUE
    /\ db_ctx = nullptr
    /\ handles = {}
    /\ stmts = {}
    /\ stmt_db = [s \in {} |-> nullptr]
    /\ conn = "Closed"
    /\ pc = "idle"
    /\ op = "none"
    /\ cur_query = NoQuery
    /\ args = <<>>
    /\ stmt = nullptr
    /\ i = 0
    /\ array = <<>>
    /\ retval = FALSE
    /\ rows = <<>>
    /\ calls = <<>>
    /\ diag = <<>>
    /\ open_path = <<>>

InitCodec ==
    /\ columns = <<>>
    /\ values = <<>>
    /\ params = <<>>
    /\ cells = <<>>
    /\ record = <<>>
    /\ rt_pc = "off"

Init == InitBinding /\ InitCodec

\* ------------------------------------------------------ connection handle
\* String::strip_edges: drop leading and trailing blanks.
RECURSIVE strip_left(_)
strip_left(s) == IF s # <<>> /\ Head(s) = " " THEN strip_left(Tail(s)) ELSE s
RECURSIVE strip_right(_)
strip_right(s) ==
    IF s # <<>> /\ s[Len(s)] = " " THEN strip_right(SubSeq(s, 1, Len(s) - 1)) ELSE s
\* Faulty variant of strip_edges: the path is taken as it is.
strip_edges_keeps_blanks(s) == s
strip_edges(s) == strip_right(strip_left(s))

\* A method that touches no statement leaves the statement locals alone.
NoStatement ==
    /\ cur_query' = NoQuery
    /\ args' = <<>>
    /\ array' = <<>>
    /\ rows' = <<>>
    /\ UNCHANGED <<stmts, stmt_db, stmt, i>>
    /\ UNCHANGED codec

\* bool SQLiteBinding::open(const String& path).  sqlite3_open_v2 writes its
\* handle straight into db_ctx: a handle on success, and on failure either a
\* handle that still has to be closed or NULL when it could not allocate one.
open(path) ==
    /\ pc = "idle" /\ alive
    /\ op' = "open"
    /\ open_path' = path
    /\ pc' = "done"
    /\ NoStatement
    /\ UNCHANGED alive
    /\ IF Len(strip_edges(path)) = 0
       THEN /\ retval' = FALSE
            /\ calls' = <<>>
            /\ diag' = <<>>
            /\ UNCHANGED <<db_ctx, handles, conn>>
       ELSE /\ Cardinality(handles) < MaxHandles
            /\ \E res \in {"SQLITE_OK", "SQLITE_CANTOPEN", "SQLITE_NOMEM"} :
                 /\ IF res = "SQLITE_NOMEM"
                    THEN db_ctx' = nullptr /\ UNCHANGED handles
                    ELSE /\ db_ctx' = Fresh(handles, MaxHandles)
                         /\ handles' = handles \cup {db_ctx'}
                 /\ calls' = <<Call("sqlite3_open_v2", db_ctx', 0, res)>>
                 /\ IF res = "SQLITE_OK"
                    THEN retval' = TRUE /\ diag' = <<>> /\ conn' = "Open"
                    ELSE /\ retval' = FALSE
                         /\ diag' = <<"Failed to open database">>
                         /\ UNCHANGED conn

\* sqlite3_close's answer for db_ctx: SQLITE_BUSY, the handle staying open,
\* while a statement prepared on it is not finalized, and SQLITE_OK otherwise.
CloseResults ==
    IF \E s \in stmts : stmt_db[s] = db_ctx THEN {"SQLITE_BUSY"} ELSE {"SQLITE_OK"}

\* Faulty variant of close_body: db_ctx is reset whatever sqlite3_close
\* answered.
close_body_forgets_handle(res) ==
    IF db_ctx = nullptr
    THEN /\ retval' = FALSE
         /\ calls' = <<>>
         /\ diag' = <<"Database is not opened">>
         /\ UNCHANGED <<db_ctx, handles, conn>>
    ELSE /\ calls' = <<Call("sqlite3_close", db_ctx, 0, res)>>
         /\ db_ctx' = nullptr
         /\ IF res = "SQLITE_OK"
            THEN /\ handles' = handles \ {db_ctx}
                 /\ retval' = TRUE
                 /\ diag' = <<>>
                 /\ conn' = "Closed"
            ELSE /\ retval' = FALSE
                 /\ diag' = <<"Failed to close database">>
                 /\ UNCHANGED <<handles, conn>>

\* The body of bool SQLiteBinding::close(), shared by close and the
\* destructor; `res` is sqlite3_close's answer when it is called.
close_body(res) ==
    IF db_ctx = nullptr
    THEN /\ retval' = FALSE
         /\ calls' = <<>>
         /\ diag' = <<"Database is not opened">>
         /\ UNCHANGED <<db_ctx, handles, conn>>
    ELSE /\ calls' = <<Call("sqlite3_close", db_ctx, 0, res)>>
         /\ IF res = "SQLITE_OK"
            THEN /\ handles' = handles \ {db_ctx}
                 /\ db_ctx' = nullptr
                 /\ retval' = TRUE
                 /\ diag' = <<>>
                 /\ conn' = "Closed"
            ELSE /\ retval' = FALSE
                 /\ diag' = <<"Failed to close database">>
                 /\ UNCHANGED <<db_ctx, handles, conn>>

close ==
    /\ pc = "idle" /\ alive
    /\ op' = "close"
    /\ pc' = "done"
    /\ NoStatement
    /\ UNCHANGED <<alive, open_path>>
    /\ \E res \in CloseResults : close_body(res)

\* SQLiteBinding::~SQLiteBinding(): close() when db_ctx is set, its result
\* dropped.
destroy ==
    /\ pc = "idle" /\ alive
    /\ alive' = FALSE
    /\ op' = "~SQLiteBinding"
    /\ pc' = "done"
    /\ NoStatement
    /\ UNCHANGED open_path
    /\ IF db_ctx # nullptr
       THEN \E res \in CloseResults : close_body(res)
       ELSE UNCHANGED <<db_ctx, handles, conn, retval, calls, diag>>

\* ---------------------------------------------------- statement lifecycle
Log(c) == calls' = Append(calls, c)
Say(d) == diag' = Append(diag, d)

\* static sqlite3_stmt* prepare(sqlite3* db, const char* query): the value
\* it returns is stmt'; `res` is sqlite3_prepare_v2's answer when called.
prepare(q, res) ==
    IF db_ctx = nullptr
    THEN /\ stmt' = nullptr
         /\ calls' = <<>>
         /\ diag' = <<"Condition \"db == nullptr\" is true.">>
         /\ UNCHANGED <<stmts, stmt_db>>
    ELSE /\ calls' = <<Call("sqlite3_prepare_v2", db_ctx, 0, res)>>
         /\ IF res # "SQLITE_OK"
            THEN /\ stmt' = nullptr
                 /\ diag' = <<"Condition \"result != SQLITE_OK\" is true.">>
                 /\ UNCHANGED <<stmts, stmt_db>>
            ELSE /\ stmt' = Fresh(stmts, MaxStmts)
                 /\ stmts' = stmts \cup {stmt'}
                 /\ stmt_db' = [s \in stmts' |-> IF s = stmt' THEN db_ctx ELSE stmt_db[s]]
                 /\ diag' = <<>>

PrepareResults(q) ==
    IF q.valid THEN {"SQLITE_OK", "SQLITE_ERROR"} ELSE {"SQLITE_ERROR"}

\* Faulty variant of begin: the statement prepare returned is not looked at
\* and the call goes on to bind_args.
begin_unchecked(name, q, a) ==
    /\ pc = "idle" /\ alive
    /\ db_ctx # nullptr => Cardinality(stmts) < MaxStmts
    /\ op' = name
    /\ cur_query' = q
    /\ args' = a
    /\ i' = 0
    /\ array' = <<>>
    /\ rows' = <<>>
    /\ retval' = FALSE
    /\ \E res \in PrepareResults(q) : prepare(q, res)
    /\ pc' = "bind_args"
    /\ UNCHANGED <<alive, db_ctx, handles, conn, open_path>>
    /\ UNCHANGED codec

\* Entry of a statement method up to its `if (stmt == nullptr) return ...`.
\* The engine is asked for a statement only while it has room for one.
begin(name, q, a) ==
    /\ pc = "idle" /\ alive
    /\ db_ctx # nullptr => Cardinality(stmts) < MaxStmts
    /\ op' = name
    /\ cur_query' = q
    /\ args' = a
    /\ i' = 0
    /\ array' = <<>>
    /\ rows' = <<>>
    /\ retval' = FALSE
    /\ \E res \in PrepareResults(q) : prepare(q, res)
    /\ pc' = IF stmt' = nullptr THEN "done" ELSE "bind_args"
    /\ UNCHANGED <<alive, db_ctx, handles, conn, open_path>>
    /\ UNCHANGED codec

\* bool SQLiteBinding::query_with_args(query, arguments), lines 171-174
query_with_args(q, a) == begin("query_with_args", q, a)

\* bool SQLiteBinding::query(query): query_with_args(query, Array())
query(q) == begin("query", q, <<>>)

\* Array SQLiteBinding::query_fetch_rows_with_args(query, arguments), 189-192
query_fetch_rows_with_args(q, a) == begin("query_fetch_rows_with_args", q, a)

\* Array SQLiteBinding::query_fetch_rows(query)
query_fetch_rows(q) == begin("query_fetch_rows", q, <<>>)

Frame ==
    /\ UNCHANGED <<alive, db_ctx, handles, conn, op, cur_query, args, open_path>>
    /\ UNCHANGED codec

\* Faulty variant of bind_args_count: only too few arguments are rejected.
bind_args_count_lenient ==
    /\ pc = "bind_args"
    /\ i' = 0
    /\ Log(Call("sqlite3_bind_parameter_count", stmt, 0, ""))
    /\ IF cur_query.params > Len(args)
       THEN Say("Failed to bind arguments [Wrong Count]") /\ pc' = "bind_failed"
       ELSE UNCHANGED diag /\ pc' = "bind_loop"
    /\ Frame /\ UNCHANGED <<stmts, stmt_db, stmt, array, retval, rows>>

\* bind_args, lines 43-48: the placeholder count against args.size().
bind_args_count ==
    /\ pc = "bind_args"
    /\ i' = 0
    /\ Log(Call("sqlite3_bind_parameter_count", stmt, 0, ""))
    /\ IF cur_query.params # Len(args)
       THEN Say("Failed to bind arguments [Wrong Count]") /\ pc' = "bind_failed"
       ELSE UNCHANGED diag /\ pc' = "bind_loop"
    /\ Frame /\ UNCHANGED <<stmts, stmt_db, stmt, array, retval, rows>>

\* The engine routine bind_args' switch picks for a tag.
bind_function(type) ==
    CASE type = "PACKED_BYTE_ARRAY" -> "sqlite3_bind_blob"
      [] type = "FLOAT"             -> "sqlite3_bind_double"
      [] type = "INT"               -> "sqlite3_bind_int"
      [] type = "NIL"               -> "sqlite3_bind_null"
      [] type = "STRING"            -> "sqlite3_bind_text"
      [] OTHER                      -> "default"

\* Faulty variant of bind_arg: the default branch reports the tag and
\* breaks out of the switch instead of returning false.
bind_arg_skips_unsupported ==
    /\ pc = "bind_loop"
    /\ i < cur_query.params
    /\ LET type == args[i + 1] IN
       IF bind_function(type) = "default"
       THEN /\ Say("Unsupported type")
            /\ i' = i + 1
            /\ UNCHANGED <<calls, pc>>
       ELSE \E res \in {"SQLITE_OK", "SQLITE_NOMEM"} :
              /\ Log(Call(bind_function(type), stmt, i + 1, res))
              /\ IF res # "SQLITE_OK"
                 THEN /\ Say("Failed to bind argument")
                      /\ pc' = "bind_failed"
                      /\ UNCHANGED i
                 ELSE /\ i' = i + 1
                      /\ UNCHANGED <<diag, pc>>
    /\ Frame /\ UNCHANGED <<stmts, stmt_db, stmt, array, retval, rows>>

\* bind_args, lines 50-85: one turn of the loop, argument i bound at i + 1.
bind_arg ==
    /\ pc = "bind_loop"
    /\ i < cur_query.params
    /\ LET type == args[i + 1] IN
       IF bind_function(type) = "default"
       THEN /\ Say("Unsupported type")
            /\ pc' = "bind_failed"
            /\ UNCHANGED <<calls, i>>
       ELSE \E res \in {"SQLITE_OK", "SQLITE_NOMEM"} :
              /\ Log(Call(bind_function(type), stmt, i + 1, res))
              /\ IF res # "SQLITE_OK"
                 THEN /\ Say("Failed to bind argument")
                      /\ pc' = "bind_failed"
                      /\ UNCHANGED i
                 ELSE /\ i' = i + 1
                      /\ UNCHANGED <<diag, pc>>
    /\ Frame /\ UNCHANGED <<stmts, stmt_db, stmt, array, retval, rows>>

\* bind_args, line 86: the loop is over, return true; the caller goes on to
\* its step.
bind_args_return ==
    /\ pc = "bind_loop"
    /\ ~(i < cur_query.params)
    /\ pc' = IF op \in ExecOps THEN "step" ELSE "fetch_loop"
    /\ Frame /\ UNCHANGED <<stmts, stmt_db, stmt, i, array, retval, rows, calls, diag>>

\* sqlite3_finalize(stmt) and the end of the local's scope.
finalize ==
    /\ stmts' = stmts \ {stmt}
    /\ stmt_db' = [s \in stmts' |-> stmt_db[s]]
    /\ stmt' = nullptr

\* Faulty variant of query_with_args_bind_failed: the connection's handle is
\* dropped along with the statement.
query_with_args_bind_failed_drops_db ==
    /\ pc = "bind_failed" /\ op \in ExecOps
    /\ Log(Call("sqlite3_finalize", stmt, 0, ""))
    /\ finalize
    /\ retval' = FALSE
    /\ pc' = "done"
    /\ db_ctx' = nullptr
    /\ UNCHANGED <<alive, handles, conn, op, cur_query, args, open_path>>
    /\ UNCHANGED codec
    /\ UNCHANGED <<i, array, rows, diag>>

\* query_with_args, lines 175-178: bind_args returned false.
query_with_args_bind_failed ==
    /\ pc = "bind_failed" /\ op \in ExecOps
    /\ Log(Call("sqlite3_finalize", stmt, 0, ""))
    /\ finalize
    /\ retval' = FALSE
    /\ pc' = "done"
    /\ Frame /\ UNCHANGED <<i, array, rows, diag>>

\* Faulty variant of query_fetch_rows_bind_failed: the result of bind_args
\* is dropped and the call goes on to its step loop.
query_fetch_rows_bind_failed_steps ==
    /\ pc = "bind_failed" /\ op \in FetchOps
    /\ pc' = "fetch_loop"
    /\ Frame /\ UNCHANGED <<stmts, stmt_db, stmt, i, array, retval, rows, calls, diag>>

\* query_fetch_rows_with_args, lines 193-196: bind_args returned false.
query_fetch_rows_bind_failed ==
    /\ pc = "bind_failed" /\ op \in FetchOps
    /\ Log(Call("sqlite3_finalize", stmt, 0, ""))
    /\ finalize
    /\ rows' = <<>>
    /\ pc' = "done"
    /\ Frame /\ UNCHANGED <<i, array, retval, diag>>

\* A statement without result columns never answers SQLITE_ROW.
StepResultsOf(q) ==
    IF Len(q.cols) = 0 THEN StepResults \ {"SQLITE_ROW"} ELSE StepResults

\* Faulty variant of query_with_args_step: a failed step returns at once,
\* before the finalize.
query_with_args_step_leaks ==
    /\ pc = "step"
    /\ \E res \in StepResultsOf(cur_query) :
         IF res = "SQLITE_ERROR"
         THEN /\ Log(Call("sqlite3_step", stmt, 0, res))
              /\ stmt' = nullptr
              /\ retval' = FALSE
              /\ UNCHANGED <<stmts, stmt_db>>
         ELSE /\ calls' = calls \o <<Call("sqlite3_step", stmt, 0, res),
                                     Call("sqlite3_finalize", stmt, 0, "")>>
              /\ finalize
              /\ retval' = TRUE
    /\ pc' = "done"
    /\ Frame /\ UNCHANGED <<i, array, rows, diag>>

\* query_with_args, lines 179-181: one step, its result dropped, finalize,
\* return true.
query_with_args_step ==
    /\ pc = "step"
    /\ \E res \in StepResultsOf(cur_query) :
         calls' = calls \o <<Call("sqlite3_step", stmt, 0, res), Call("sqlite3_finalize", stmt, 0, "")>>
    /\ finalize
    /\ retval' = TRUE
    /\ pc' = "done"
    /\ Frame /\ UNCHANGED <<i, array, rows, diag>>

\* --------------------------------------------------------- row materializer
\* Dictionary: an insertion-ordered list of [key, value]; result[name] = v
\* replaces the value of a key already present and appends a new key.
DictHas(d, k) == \E n \in 1..Len(d) : d[n].key = k
DictSet(d, k, v) ==
    IF DictHas(d, k)
    THEN [n \in 1..Len(d) |-> IF d[n].key = k THEN [key |-> k, value |-> v] ELSE d[n]]
    ELSE Append(d, [key |-> k, value |-> v])

\* ------------------------------------------------------------ value codec
\* Values are kept as sequences of integers so that a Variant and the
\* engine's copy of it can be compared:
\*   INT / SQLITE_INTEGER    the 64-bit integer as <<hi, lo>>, two signed
\*                           32-bit words (hi the upper, lo the lower bits)
\*   FLOAT / SQLITE_FLOAT    the bits of the IEEE double as <<hi, lo>>
\*   STRING                  the code points of the String
\*   SQLITE_TEXT             the bytes of the text
\*   PACKED_BYTE_ARRAY / SQLITE_BLOB   the bytes
\*   NIL / SQLITE_NULL       <<>>
Variant(type, v) == [type |-> type, v |-> v]
Column(type, v) == [type |-> type, v |-> v]

\* static_cast<int>(int64_t) and the (int) in sqlite3_column_int: the lower
\* 32 bits.
to_int(v) == v[2]
\* int -> sqlite3_int64 / int64_t: sign extension.
int64_of(w) == <<IF w < 0 THEN -1 ELSE 0, w>>

\* String::utf8(): the UTF-8 bytes of the code points.
utf8_char(c) ==
    IF c < 128 THEN <<c>>
    ELSE IF c < 2048 THEN <<192 + (c \div 64), 128 + (c % 64)>>
    ELSE IF c < 65536 THEN <<224 + (c \div 4096), 128 + ((c \div 64) % 64), 128 + (c % 64)>>
    ELSE <<240 + (c \div 262144), 128 + ((c \div 4096) % 64),
           128 + ((c \div 64) % 64), 128 + (c % 64)>>
RECURSIVE utf8(_)
utf8(str) == IF str = <<>> THEN <<>> ELSE utf8_char(Head(str)) \o utf8(Tail(str))

\* A const char* read as a C string (sqlite3_bind_text with length -1,
\* String(const char*)): the bytes before the first NUL.
RECURSIVE c_str(_)
c_str(bytes) ==
    IF bytes = <<>> \/ Head(bytes) = 0 THEN <<>>
    ELSE <<Head(bytes)>> \o c_str(Tail(bytes))

\* String(const char*): every char becomes the code point of the same number.
String_from_c_str(bytes) == [n \in 1..Len(c_str(bytes)) |-> c_str(bytes)[n]]

\* sqlite3IsNaN on the bits of a double: exponent all ones, mantissa not 0.
IsNaN(v) ==
    LET h == IF v[1] < 0 THEN v[1] + 2147483647 + 1 ELSE v[1]
    IN  h >= 2146435072 /\ ~(h = 2146435072 /\ v[2] = 0)

\* What the sqlite3_bind_* call of bind_args' switch stores in the parameter
\* for the Variant `arg` (lines 54-71).  sqlite3_bind_blob with the null
\* pointer an empty PackedByteArray's ptr() gives, and sqlite3_bind_double
\* with a NaN, leave the parameter NULL.
bind_value(arg) ==
    CASE arg.type = "PACKED_BYTE_ARRAY" ->
            IF arg.v = <<>> THEN Column("SQLITE_NULL", <<>>) ELSE Column("SQLITE_BLOB", arg.v)
      [] arg.type = "FLOAT" ->
            IF IsNaN(arg.v) THEN Column("SQLITE_NULL", <<>>) ELSE Column("SQLITE_FLOAT", arg.v)
      [] arg.type = "INT" -> Column("SQLITE_INTEGER", int64_of(to_int(arg.v)))
      [] arg.type = "NIL" -> Column("SQLITE_NULL", <<>>)
      [] arg.type = "STRING" -> Column("SQLITE_TEXT", c_str(utf8(arg.v)))

\* The Variant fetch_row stores for a column of a supported, non-null type
\* (lines 96-113).
column_value(col) ==
    CASE col.type = "SQLITE_INTEGER" -> Variant("INT", int64_of(to_int(col.v)))
      [] col.type = "SQLITE_FLOAT"   -> Variant("FLOAT", col.v)
      [] col.type = "SQLITE_TEXT"    -> Variant("STRING", String_from_c_str(col.v))
      [] col.type = "SQLITE_BLOB"    -> Variant("PACKED_BYTE_ARRAY", col.v)

\* A fetch_row that stores a null column under its key, as a nil Variant.
RECURSIVE fetch_row_keeps_nulls(_, _, _, _)
fetch_row_keeps_nulls(names, row, j, result) ==
    IF j > Len(names) THEN result
    ELSE IF row[j].type \in {"SQLITE_INTEGER", "SQLITE_FLOAT", "SQLITE_TEXT", "SQLITE_BLOB"}
         THEN fetch_row_keeps_nulls(names, row, j + 1,
                                    DictSet(result, names[j], column_value(row[j])))
    ELSE IF row[j].type = "SQLITE_NULL"
         THEN fetch_row_keeps_nulls(names, row, j + 1,
                                    DictSet(result, names[j], Variant("NIL", <<>>)))
    ELSE <<>>

\* fetch_row's loop from column j (1-based here) with `result` so far; `row`
\* is the engine's current row, one Column per column.
RECURSIVE fetch_row_from(_, _, _, _)
fetch_row_from(names, row, j, result) ==
    IF j > Len(names) THEN result
    ELSE IF row[j].type \in {"SQLITE_INTEGER", "SQLITE_FLOAT", "SQLITE_TEXT", "SQLITE_BLOB"}
         THEN fetch_row_from(names, row, j + 1,
                             DictSet(result, names[j], column_value(row[j])))
    ELSE IF row[j].type = "SQLITE_NULL"
         THEN fetch_row_from(names, row, j + 1, result)
    ELSE <<>>

\* static Dictionary fetch_row(sqlite3_stmt* stmt)
fetch_row(names, row) == fetch_row_from(names, row, 1, <<>>)

\* A row of the given column types as the engine holds it: the tables of the
\* catalogue hold one value of each type.
StoredValue(type) ==
    CASE type = "SQLITE_INTEGER" -> <<0, 10>>
      [] type = "SQLITE_FLOAT"   -> <<1073217536, 0>>
      [] type = "SQLITE_TEXT"    -> <<65>>
      [] type = "SQLITE_BLOB"    -> <<255>>
      [] OTHER                   -> <<>>
StoredRow(types) == [j \in 1..Len(types) |-> Column(types[j], StoredValue(types[j]))]

\* The columns fetch_row reads: all of them, or up to the first one whose
\* type its switch does not know.
Unsupported(types) == { j \in 1..Len(types) : types[j] = "OTHER" }
FirstUnsupported(types) ==
    CHOOSE j \in Unsupported(types) : \A k \in Unsupported(types) : j <= k
fetch_row_calls(types) ==
    LET last == IF Unsupported(types) = {} THEN Len(types) ELSE FirstUnsupported(types)
    IN  [j \in 1..last |-> Call("sqlite3_column_type", stmt, j, types[j])]
fetch_row_diag(types) ==
    IF Unsupported(types) = {} THEN <<>> ELSE <<"Unsupported column type">>

\* Faulty variant of fetch_on_row: the record goes to the front of array.
fetch_on_row_prepends(types) ==
    /\ calls' = (calls \o <<Call("sqlite3_step", stmt, 0, "SQLITE_ROW")>>) \o fetch_row_calls(types)
    /\ diag' = diag \o fetch_row_diag(types)
    /\ array' = <<fetch_row(cur_query.cols, StoredRow(types))>> \o array
    /\ UNCHANGED <<pc, stmts, stmt_db, stmt, rows>>

\* query_fetch_rows_with_args, lines 202-204: case SQLITE_ROW.
fetch_on_row(types) ==
    /\ calls' = (calls \o <<Call("sqlite3_step", stmt, 0, "SQLITE_ROW")>>) \o fetch_row_calls(types)
    /\ diag' = diag \o fetch_row_diag(types)
    /\ array' = Append(array, fetch_row(cur_query.cols, StoredRow(types)))
    /\ UNCHANGED <<pc, stmts, stmt_db, stmt, rows>>

\* lines 205-207 and 213-214: case SQLITE_DONE ends the loop, then finalize
\* and return array.
fetch_on_done ==
    /\ calls' = calls \o <<Call("sqlite3_step", stmt, 0, "SQLITE_DONE"), Call("sqlite3_finalize", stmt, 0, "")>>
    /\ finalize
    /\ rows' = array
    /\ pc' = "done"
    /\ UNCHANGED <<array, diag>>

\* Faulty variant of fetch_on_error: the rows gathered so far are returned.
fetch_on_error_keeps_rows(res) ==
    /\ Log(Call("sqlite3_step", stmt, 0, res))
    /\ Say("Unsupported step result")
    /\ rows' = array
    /\ stmt' = nullptr
    /\ pc' = "done"
    /\ UNCHANGED <<array, stmts, stmt_db>>

\* lines 208-210: default: print_error and return {} from inside the loop;
\* the local stmt goes out of scope, the engine's statement stays.
fetch_on_error(res) ==
    /\ Log(Call("sqlite3_step", stmt, 0, res))
    /\ Say("Unsupported step result")
    /\ rows' = <<>>
    /\ stmt' = nullptr
    /\ pc' = "done"
    /\ UNCHANGED <<array, stmts, stmt_db>>

\* query_fetch_rows_with_args, lines 197-214: one turn of the while loop.
query_fetch_rows_step ==
    /\ pc = "fetch_loop"
    /\ \/ /\ Len(cur_query.cols) > 0
          /\ Len(array) < MaxRows
          /\ \E types \in RowTypes(Len(cur_query.cols)) : fetch_on_row(types)
       \/ fetch_on_done
       \/ fetch_on_error("SQLITE_ERROR")
    /\ Frame /\ UNCHANGED <<i, retval>>

\* The caller takes the returned value and the locals of the call are gone;
\* the object and the engine keep their state.
return_to_caller ==
    /\ pc = "done"
    /\ pc' = "idle"
    /\ op' = "none"
    /\ cur_query' = NoQuery
    /\ args' = <<>>
    /\ i' = 0
    /\ array' = <<>>
    /\ retval' = FALSE
    /\ rows' = <<>>
    /\ calls' = <<>>
    /\ diag' = <<>>
    /\ open_path' = <<>>
    /\ UNCHANGED <<alive, db_ctx, handles, stmts, stmt_db, conn, stmt>>
    /\ UNCHANGED codec

\* ------------------------------------------------------------ specification
\* The caller calls a method only between calls (every method's own guard
\* says so too; stated here ahead of the choice of its inputs).
Next ==
    \/ pc = "idle" /\ \E path \in Paths : open(path)
    \/ close
    \/ destroy
    \/ pc = "idle" /\ \E q \in Queries : query(q)
    \/ pc = "idle" /\ \E q \in Queries, a \in ArgLists : query_with_args(q, a)
    \/ pc = "idle" /\ \E q \in Queries : query_fetch_rows(q)
    \/ pc = "idle" /\ \E q \in Queries, a \in ArgLists : query_fetch_rows_with_args(q, a)
    \/ bind_args_count
    \/ bind_arg
    \/ bind_args_return
    \/ query_with_args_bind_failed
    \/ query_fetch_rows_bind_failed
    \/ query_with_args_step
    \/ query_fetch_rows_step
    \/ return_to_caller

Spec == Init /\ [][Next]_vars

\* ------------------------------------------------- round trip of arguments
\* One query_fetch_rows_with_args("SELECT ? AS a[, ? AS b]", values) on an
\* open connection, followed through the values: bind_args sets the
\* parameters, the engine's row holds each parameter as it was bound, and
\* fetch_row builds the record from that row.
RoundTripColumns == {<<"a">>, <<"a", "b">>}

Ints == { <<0, 0>>, <<0, 1>>, <<-1, -1>>,
          <<0, 2147483647>>,          \*  2^31 - 1
          <<-1, -2147483647 - 1>>,    \* -2^31
          <<0, -2147483647 - 1>>,     \*  2^31
          <<-1, 2147483647>>,         \* -2^31 - 1
          <<1, 0>> }                  \*  2^32
Floats == { <<0, 0>>,                 \* 0.0
            <<1073217536, 0>>,        \* 1.5
            <<2146435072, 0>>,        \* +inf
            <<2146959360, 0>> }       \* NaN
Texts == SeqsUpTo({65, 233}, MaxTextLen)      \* "A", e acute
Blobs == SeqsUpTo({0, 255}, MaxBlobLen)
Variants ==
    {Variant("INT", v) : v \in Ints} \cup {Variant("FLOAT", v) : v \in Floats}
    \cup {Variant("STRING", v) : v \in Texts}
    \cup {Variant("PACKED_BYTE_ARRAY", v) : v \in Blobs}
    \cup {Variant("NIL", <<>>)}

InitRoundTrip ==
    /\ InitBinding
    /\ columns \in RoundTripColumns
    /\ values \in [1..Len(columns) -> Variants]
    /\ params = <<>>
    /\ cells = <<>>
    /\ record = <<>>
    /\ rt_pc = "bind_args"

\* bind_args, lines 50-86, every sqlite3_bind_* answering SQLITE_OK.
rt_bind_args ==
    /\ rt_pc = "bind_args"
    /\ params' = [n \in 1..Len(values) |-> bind_value(values[n])]
    /\ rt_pc' = "step"
    /\ UNCHANGED <<columns, values, cells, record>>
    /\ UNCHANGED binding

\* sqlite3_step answering SQLITE_ROW: column n of the row of "SELECT ?, ..."
\* is parameter n.
rt_step ==
    /\ rt_pc = "step"
    /\ cells' = params
    /\ rt_pc' = "fetch_row"
    /\ UNCHANGED <<columns, values, params, record>>
    /\ UNCHANGED binding

\* array.push_back(fetch_row(stmt)), line 203.
rt_fetch_row ==
    /\ rt_pc = "fetch_row"
    /\ record' = fetch_row(columns, cells)
    /\ rt_pc' = "done"
    /\ UNCHANGED <<columns, values, params, cells>>
    /\ UNCHANGED binding

NextRoundTrip == rt_bind_args \/ rt_step \/ rt_fetch_row

SpecRoundTrip == InitRoundTrip /\ [][NextRoundTrip]_vars

TypeOK ==
    /\ alive \in BOOLEAN
    /\ db_ctx \in 0..MaxHandles
    /\ handles \subseteq 1..MaxHandles
    /\ stmts \subseteq 1..MaxStmts
    /\ DOMAIN stmt_db = stmts
    /\ \A s \in stmts : stmt_db[s] \in handles
    /\ conn \in {"Open", "Closed"}
    /\ pc \in {"idle", "done", "bind_args", "bind_loop", "bind_failed", "step", "fetch_loop"}
    /\ op \in StatementOps \cup {"none", "open", "close", "~SQLiteBinding"}
    /\ stmt \in 0..MaxStmts
    /\ i \in 0..MaxArgs
    /\ Len(array) <= MaxRows
    /\ retval \in BOOLEAN

\* ------------------------------------------------------------- properties
\* What a returned call's record of engine calls shows.
Returned == pc = "done"
IsBind(c) == c.call \in {"sqlite3_bind_blob", "sqlite3_bind_double", "sqlite3_bind_int",
                         "sqlite3_bind_null", "sqlite3_bind_text"}
IsStep(c) == c.call = "sqlite3_step"
IsFinalize(c) == c.call = "sqlite3_finalize"
Count(P(_)) == Cardinality({ n \in 1..Len(calls) : P(calls[n]) })
Binds == SelectSeq(calls, IsBind)
Steps == SelectSeq(calls, IsStep)

\* prepare returned a statement: the engine was asked and answered SQLITE_OK.
PrepareOK ==
    /\ Len(calls) >= 1
    /\ calls[1].call = "sqlite3_prepare_v2"
    /\ calls[1].res = "SQLITE_OK"
\* The statement this call prepared (every call made after prepare is on it).
PreparedStmt == calls[2].h
\* Every argument was bound: the counts agree and the engine accepted a bind
\* at each position.
BindOK ==
    /\ Len(args) = cur_query.params
    /\ \A k \in 1..Len(args) :
         \E n \in 1..Len(calls) :
            IsBind(calls[n]) /\ calls[n].pos = k /\ calls[n].res = "SQLITE_OK"
\* A step answered something other than SQLITE_ROW and SQLITE_DONE.
StepFailed ==
    \E n \in 1..Len(calls) :
        IsStep(calls[n]) /\ calls[n].res \notin {"SQLITE_ROW", "SQLITE_DONE"}

\* C1: a fetch call (query_fetch_rows, query_fetch_rows_with_args) whose
\* prepare succeeded has finalized its statement exactly once when it
\* returns, on every exit path, and that statement is no longer live.
C1_FetchFinalizesOnce ==
    (Returned /\ op \in FetchOps /\ PrepareOK) =>
        /\ Count(IsFinalize) = 1
        /\ PreparedStmt \notin stmts

\* C2: query / query_with_args, once prepare and bind succeeded, step the
\* statement exactly once and then finalize it exactly once, whatever the
\* step answered; nothing is drained and the statement is not live on return.
C2_ExecStepsOnceThenFinalizes ==
    (Returned /\ op \in ExecOps /\ PrepareOK /\ BindOK) =>
        /\ Len(Steps) = 1
        /\ Count(IsFinalize) = 1
        /\ IsStep(calls[Len(calls) - 1])
        /\ IsFinalize(calls[Len(calls)])
        /\ \A n \in 1..Len(calls) : calls[n].call # "sqlite3_column_type"
        /\ PreparedStmt \notin stmts
        /\ stmt = nullptr

\* C2 witness: query_with_args on a row-returning statement returned after
\* its single step answered SQLITE_ROW.
C2_Witness ==
    /\ Returned /\ op = "query_with_args" /\ PrepareOK /\ BindOK
    /\ Len(args) = 1
    /\ Len(Steps) = 1 /\ Steps[1].res = "SQLITE_ROW"

\* C3: query / query_with_args return true exactly when prepare, bind and
\* the single step all succeeded; a step answering anything but SQLITE_ROW
\* or SQLITE_DONE makes them return false.
C3_ExecReturnsFalseOnStepError ==
    (Returned /\ op \in ExecOps) =>
        (retval <=> (PrepareOK /\ BindOK /\ Len(Steps) = 1 /\ ~StepFailed))

\* A column of some row reported a type outside the five supported ones.
UnsupportedColumnSeen ==
    \E n \in 1..Len(calls) :
        calls[n].call = "sqlite3_column_type" /\ calls[n].res = "OTHER"

\* C4: a fetch call that met a column of unsupported type returns the empty
\* sequence and made no engine step after reading that column.
C4_UnsupportedColumnAbortsFetch ==
    (Returned /\ op \in FetchOps /\ UnsupportedColumnSeen) =>
        /\ rows = <<>>
        /\ \A n \in 1..Len(calls) :
             (calls[n].call = "sqlite3_column_type" /\ calls[n].res = "OTHER")
                => \A m \in (n + 1)..Len(calls) : ~IsStep(calls[m])

\* C5: a fetch call one of whose steps failed returns the empty sequence,
\* however many rows it had materialized before.
C5_StepErrorDiscardsRows ==
    (Returned /\ op \in FetchOps /\ StepFailed) => rows = <<>>

\* C5 witness: a fetch call returned after a failed step with two rows
\* already materialized, the first of them a non-empty record.
C5_Witness ==
    /\ Returned /\ op \in FetchOps /\ StepFailed
    /\ Len(array) = 2 /\ array[1] # <<>>

\* C6: while the connection is Closed (initially, after a successful close,
\* after a failed open) every statement method fails without any engine call.
C6_ClosedGuardNoEngineCall ==
    (Returned /\ op \in StatementOps /\ conn = "Closed") =>
        /\ calls = <<>>
        /\ retval = FALSE
        /\ rows = <<>>

\* C7: an open that the engine fails on a Closed connection returns false and
\* leaves the object without a native handle.
C7_FailedOpenStaysClosed ==
    (/\ Returned /\ op = "open" /\ conn = "Closed"
     /\ calls # <<>> /\ calls[1].res # "SQLITE_OK") =>
        /\ retval = FALSE
        /\ db_ctx = nullptr

\* C8: close called on a Closed connection (no open has returned true since
\* the start or since the last close that returned true) returns false,
\* makes no engine call and leaves the connection Closed.
C8_CloseOnClosedFails ==
    [][(pc = "idle" /\ op' = "close" /\ conn = "Closed") =>
          (/\ retval' = FALSE
           /\ calls' = <<>>
           /\ diag' = <<"Database is not opened">>
           /\ conn' = "Closed"
           /\ db_ctx' = nullptr)]_vars

WithArgsOps == {"query_with_args", "query_fetch_rows_with_args"}
SupportedTypes == {"PACKED_BYTE_ARRAY", "FLOAT", "INT", "NIL", "STRING"}

\* The call failed and released what it had prepared, on a connection that
\* is the one it started with and still open.
FailedCleanly ==
    /\ retval = FALSE
    /\ rows = <<>>
    /\ Steps = <<>>
    /\ Count(IsFinalize) = 1
    /\ IsFinalize(calls[Len(calls)])
    /\ PreparedStmt \notin stmts
    /\ stmt = nullptr
    /\ db_ctx # nullptr
    /\ db_ctx = calls[1].h
    /\ db_ctx \in handles

\* C9: query_with_args / query_fetch_rows_with_args given a number of
\* arguments different from the placeholder count fail without binding or
\* stepping, finalize the statement and leave the connection open.
C9_ArgCountMismatchFailsCleanly ==
    (/\ Returned /\ op \in WithArgsOps /\ PrepareOK
     /\ Len(args) # cur_query.params) =>
        /\ Binds = <<>>
        /\ FailedCleanly

\* C9 witness: query_fetch_rows_with_args returned after being given two
\* arguments for a statement with one placeholder.
C9_Witness ==
    /\ Returned /\ op = "query_fetch_rows_with_args" /\ PrepareOK
    /\ cur_query.params = 1 /\ Len(args) = 2

\* Some argument cannot be encoded: its tag is unsupported, or the engine
\* refused its bind.
EncodeFails ==
    \/ \E p \in 1..Len(args) : args[p] \notin SupportedTypes
    \/ \E n \in 1..Len(Binds) : Binds[n].res # "SQLITE_OK"
\* The position binding stopped at, read off the bind calls made.
StoppedAt ==
    IF Binds # <<>> /\ Binds[Len(Binds)].res # "SQLITE_OK"
    THEN Len(Binds) ELSE Len(Binds) + 1

\* C10: when the first argument that cannot be encoded is at position k,
\* positions 1..k-1 were bound in increasing order, no position beyond k was
\* touched, the statement was never stepped and was finalized, and the call
\* failed with the connection still open.
C10_BindStopsAtFirstFailure ==
    (/\ Returned /\ op \in StatementOps /\ PrepareOK
     /\ Len(args) = cur_query.params /\ EncodeFails) =>
        LET k == StoppedAt IN
        /\ k \in 1..Len(args)
        /\ \A n \in 1..Len(Binds) : Binds[n].pos = n
        /\ Len(Binds) \in {k - 1, k}
        /\ \A n \in 1..(k - 1) :
             /\ args[n] \in SupportedTypes
             /\ Binds[n].call = bind_function(args[n])
             /\ Binds[n].res = "SQLITE_OK"
        /\ \/ args[k] \notin SupportedTypes /\ Len(Binds) = k - 1
           \/ args[k] \in SupportedTypes /\ Len(Binds) = k /\ Binds[k].res # "SQLITE_OK"
        /\ FailedCleanly

\* C10 witness: query_with_args returned after binding its first argument
\* and meeting an unsupported tag at position 2.
C10_Witness ==
    /\ Returned /\ op = "query_with_args" /\ PrepareOK
    /\ Len(args) = 2 /\ cur_query.params = 2
    /\ args[1] = "INT" /\ args[2] = "BOOL"
    /\ Len(Binds) = 1

\* ------------------------------------------------ statement order (Spec)
IsColumn(c) == c.call = "sqlite3_column_type"
IsPrepare(c) == c.call = "sqlite3_prepare_v2"

\* C15: in every statement operation, at every point of it, the engine calls
\* made so far keep the order prepare, binds, steps (with their column
\* reads), finalize: nothing is called on a statement before prepare
\* succeeded, no step before every placeholder was bound successfully, no
\* bind after a step, a column is read only from the row just stepped to,
\* and nothing follows the finalize.
C15_LifecycleOrder ==
    op \in StatementOps =>
        \A n \in 1..Len(calls) :
            /\ IsPrepare(calls[n]) => n = 1
            /\ ~IsPrepare(calls[n]) => PrepareOK
            /\ IsStep(calls[n]) =>
                  /\ Len(args) = cur_query.params
                  /\ \A k \in 1..cur_query.params :
                        \E m \in 1..(n - 1) :
                           IsBind(calls[m]) /\ calls[m].pos = k /\ calls[m].res = "SQLITE_OK"
                  /\ \A m \in 1..(n - 1) : IsBind(calls[m]) => calls[m].res = "SQLITE_OK"
            /\ IsBind(calls[n]) => \A m \in 1..(n - 1) : ~IsStep(calls[m])
            /\ IsColumn(calls[n]) =>
                  \E m \in 1..(n - 1) :
                     /\ IsStep(calls[m]) /\ calls[m].res = "SQLITE_ROW"
                     /\ \A k \in (m + 1)..(n - 1) : IsColumn(calls[k])
            /\ IsFinalize(calls[n]) => n = Len(calls)

C15_Witness ==
    /\ Returned /\ op = "query_fetch_rows_with_args"
    /\ Len(Binds) >= 1
    /\ Len(Steps) = 2
    /\ Count(IsColumn) >= 1
    /\ Count(IsFinalize) = 1

\* The position in calls of the r-th step that answered SQLITE_ROW.
RowSteps == { n \in 1..Len(calls) : IsStep(calls[n]) /\ calls[n].res = "SQLITE_ROW" }
RowStep(r) ==
    CHOOSE n \in RowSteps : Cardinality({ m \in RowSteps : m <= n }) = r
\* The column types the engine reported for the row of the step at n.
TypesAt(n) == [j \in 1..Len(cur_query.cols) |-> calls[n + j].res]

\* C16: a fetch whose prepare and binds succeeded, whose steps all answered
\* SQLITE_ROW or SQLITE_DONE and whose columns were all of supported types
\* returns one record per SQLITE_ROW step, the r-th record built from the
\* r-th row, and its only SQLITE_DONE step is its last step.
C16_OneRecordPerRowInOrder ==
    (Returned /\ op \in FetchOps /\ PrepareOK /\ BindOK /\ ~StepFailed /\ ~UnsupportedColumnSeen)
        => /\ Len(rows) = Cardinality(RowSteps)
           /\ \A r \in 1..Len(rows) :
                 rows[r] = fetch_row(cur_query.cols, StoredRow(TypesAt(RowStep(r))))
           /\ Len(Steps) = Len(rows) + 1
           /\ Steps[Len(Steps)].res = "SQLITE_DONE"

C16_Witness ==
    /\ Returned /\ op \in FetchOps /\ PrepareOK /\ BindOK
    /\ ~StepFailed /\ ~UnsupportedColumnSeen
    /\ Len(rows) = 2
    /\ rows[1] # rows[2]
    /\ rows[1] # <<>>

\* C19: when prepare fails, on an invalid query text or with no open
\* connection, the statement operation returns at that step with its failure
\* value (false, or the empty Array), having created no statement and made
\* no bind, step, column or finalize call.
C19_PrepareFailureReturnsAtOnce ==
    [][(pc = "idle" /\ op' \in StatementOps /\ ~PrepareOK') =>
          /\ pc' = "done"
          /\ retval' = FALSE /\ rows' = <<>>
          /\ stmt' = nullptr /\ stmts' = stmts
          /\ \A n \in 1..Len(calls') : IsPrepare(calls'[n])]_vars

C19_Witness ==
    /\ Returned /\ op \in StatementOps
    /\ db_ctx # nullptr
    /\ Len(calls) = 1 /\ IsPrepare(calls[1]) /\ calls[1].res # "SQLITE_OK"
    /\ cur_query.valid = FALSE
    /\ retval = FALSE /\ rows = <<>>

\* ------------------------------------------------------ connection (Spec)
\* C13: once the object has been destroyed, after any sequence of open,
\* close and query calls, no native handle it opened is still open.
C13_DestroyLeavesNoHandle == (~alive) => handles = {}

\* C14: every native handle that was opened and not yet closed is the one
\* db_ctx references, so at most one is live.
C14_OnlyReferencedHandleLive == handles \subseteq {db_ctx}

\* C17: a close() on a connection that references a native handle asks the
\* engine to close that handle; when the engine answers success the call
\* returns true, the handle is closed and the connection is Closed, and
\* otherwise the call returns false and the connection still references the
\* same, still open, handle.
C17_CloseFollowsEngine ==
    [][(pc = "idle" /\ op' = "close" /\ db_ctx # nullptr) =>
          /\ Len(calls') = 1
          /\ calls'[1].call = "sqlite3_close" /\ calls'[1].h = db_ctx
          /\ IF calls'[1].res = "SQLITE_OK"
             THEN /\ retval' = TRUE
                  /\ db_ctx' = nullptr
                  /\ handles' = handles \ {db_ctx}
                  /\ conn' = "Closed"
             ELSE /\ retval' = FALSE
                  /\ db_ctx' = db_ctx
                  /\ handles' = handles
                  /\ conn' = conn]_vars

C17_Witness ==
    /\ Returned /\ op = "close"
    /\ Len(calls) = 1 /\ calls[1].res # "SQLITE_OK"
    /\ retval = FALSE
    /\ db_ctx = calls[1].h /\ db_ctx \in handles
    /\ conn = "Open"

\* A path with no character other than blanks (the empty path included).
Blank(p) == \A n \in 1..Len(p) : p[n] = " "

\* C18: an open() with an empty or blank-only path returns false, asks the
\* engine nothing and leaves db_ctx, the open handles and the connection
\* state as they were, whether the connection was Closed or Open.
C18_BlankPathRejected ==
    [][(pc = "idle" /\ op' = "open" /\ Blank(open_path')) =>
          /\ retval' = FALSE
          /\ calls' = <<>>
          /\ UNCHANGED <<db_ctx, handles, conn>>]_vars

C18_Witness ==
    /\ Returned /\ op = "open"
    /\ open_path = <<" ", " ">>
    /\ retval = FALSE /\ calls = <<>>
    /\ db_ctx # nullptr /\ conn = "Open"

\* C20: no step of a statement operation, from its entry to its return and
\* whatever the engine answers, changes db_ctx, the open handles or the
\* connection state.
C20_StatementOpsKeepConnection ==
    [][op' \in StatementOps => UNCHANGED <<db_ctx, handles, conn>>]_vars

C20_Witness ==
    /\ Returned /\ op \in ExecOps
    /\ PrepareOK /\ ~BindOK
    /\ retval = FALSE
    /\ db_ctx # nullptr /\ conn = "Open"

\* ---------------------------------------------- round trip (SpecRoundTrip)
\* The value the record holds under key k.
DictGet(d, k) == d[CHOOSE n \in 1..Len(d) : d[n].key = k].value
DictKeys(d) == {d[n].key : n \in 1..Len(d)}
RoundTripDone == rt_pc = "done"

\* C11: a single Integer, Float, Text or Blob argument bound and fetched back
\* from a single-column query comes back under the column's key as an equal
\* value of the same variant.
C11_RoundTripEqual ==
    (RoundTripDone /\ Len(values) = 1 /\ values[1].type \in SupportedTypes \ {"NIL"})
        => /\ DictHas(record, columns[1])
           /\ DictGet(record, columns[1]) = values[1]

\* C12: when the row has been fetched, the record's keys are exactly the
\* names of the columns whose type is not null, each once; so a bound Null
\* leaves its column's key out of the record.
C12_NullColumnsOmitted ==
    RoundTripDone =>
        /\ DictKeys(record) = {columns[n] : n \in {m \in 1..Len(cells) : cells[m].type # "SQLITE_NULL"}}
        /\ \A n, m \in 1..Len(record) : record[n].key = record[m].key => n = m
        /\ \A n \in 1..Len(values) : values[n].type = "NIL" => ~DictHas(record, columns[n])
        /\ \A n \in 1..Len(record) : record[n].value.type # "NIL"

C12_Witness ==
    /\ RoundTripDone
    /\ Len(values) = 2
    /\ values[1].type = "NIL"
    /\ values[2].type = "STRING"
    /\ DictKeys(record) = {columns[2]}

====
